---- MODULE Spec2Model ----
(***************************************************************************)
(* A model of CachingService (src/unnamed/part_000, lines 313-672): the    *)
(* two cache tiers, the pending-promise table, the single-key path         *)
(* getOrSetCache and the batch path batchProcess.                          *)
(*                                                                         *)
(* JavaScript runs one continuation at a time, so every action below is    *)
(* the code between two awaits.  A promise settling and the continuation   *)
(* of each function awaiting it are separate steps: other continuations    *)
(* may run in between.  Continuations that are ready to run (microtasks)   *)
(* run before the next answer of the store or of a population function is  *)
(* delivered (an I/O callback); a new call may start at any time.          *)
(***************************************************************************)
EXTENDS Integers, Sequences, FiniteSets, TLC

(***************************************************************************)
(* Bounds of the model.                                                    *)
(***************************************************************************)
NumCallers == 2

Callers == 1..NumCallers

Keys == {"k1", "k2", "k3"}

\* the keys that getOrSetCache is called with
SingleKeys == {"k1"}

(***************************************************************************)
(* JavaScript values.  A value is a tagged string, so that values of       *)
(* different JavaScript types stay comparable.                             *)
(***************************************************************************)
Undefined == "undefined"

Null == "null"

Zero == "n:0"

StrA == "s:a"

StrB == "s:b"

Values == {Null, Zero, StrA, StrB}

\* what a population function may resolve to
PopulateValues == {Null, StrA, StrB}

\* JavaScript truthiness of a value (the test `value ? .. : ..`)
Truthy(v) == v \notin {Undefined, Null, Zero, "s:"}

(***************************************************************************)
(* JSON.stringify / JSON.parse on the values above.  The texts are what    *)
(* the remote store holds.                                                 *)
(***************************************************************************)
ParseError == "<SyntaxError>"

Corrupt == "{"

JsonStringify(v) ==
  CASE v = Null -> "null"
    [] v = Zero -> "0"
    [] v = StrA -> "\"a\""
    [] v = StrB -> "\"b\""
    [] OTHER    -> Undefined

JsonParse(text) ==
  CASE text = "null"   -> Null
    [] text = "0"      -> Zero
    [] text = "\"a\""  -> StrA
    [] text = "\"b\""  -> StrB
    [] OTHER           -> ParseError

(***************************************************************************)
(* The two tiers.  The local tier counts its TTLs in half seconds (ttl2 =  *)
(* 2 * ttl), so that remoteTtl / 2 is exact for an odd remoteTtl.          *)
(***************************************************************************)
AbsentLocal == [present |-> FALSE, value |-> Undefined, ttl2 |-> 0]

AbsentRemote == [present |-> FALSE, json |-> "", ttl |-> 0]

\* LocalCacheService.setCacheValue: an entry whose ttl has already elapsed is absent
LocalEntry(v, ttl2) ==
  IF ttl2 > 0 THEN [present |-> TRUE, value |-> v, ttl2 |-> ttl2] ELSE AbsentLocal

\* LocalCacheService.getCacheValue: the value, or undefined
LocalGet(store, k) == IF store[k].present THEN store[k].value ELSE Undefined

\* redis SET key text EX ttl
RemoteEntry(text, ttl) == [present |-> TRUE, json |-> text, ttl |-> ttl]

\* redis GET key: the text, or nil (null in JavaScript)
RedisNil == "<nil>"

RedisGet(store, k) == IF store[k].present THEN store[k].json ELSE RedisNil

(***************************************************************************)
(* Inputs of a getOrSetCache call.  The optional localTtl parameter is a   *)
(* record: given = FALSE is the JavaScript undefined.                      *)
(***************************************************************************)
NotGiven == [given |-> FALSE, v |-> 0]

Given(n) == [given |-> TRUE, v |-> n]

RemoteTtlInputs == {0, 3}

LocalTtlInputs == {NotGiven, Given(-1), Given(0), Given(2)}

\* texts the shared store may hold when the process starts
InitialTexts == {"\"a\"", "0", Corrupt}

(***************************************************************************)
(* Promise results.                                                        *)
(***************************************************************************)
Pending == "<pending>"

Rejected == "<rejected>"

NoHandle == 0

Namespaces == {"get", "set"}

\* the operation key `caching:get:${key}` / `caching:set:${key}`
OpKey(ns, k) == <<"caching", ns, k>>

OpKeys == {OpKey(ns, k) : ns \in Namespaces, k \in SingleKeys}

VARIABLES
  local,            \* LocalCacheService: key -> entry
  remote,           \* the shared store: key -> entry
  pendingPromises,  \* operation key -> the caller whose promise is registered, or NoHandle
  opResult,         \* caller -> namespace -> the state of the promise that caller created
  invocations,      \* key -> how often a population function was invoked for it
  pc,               \* caller -> where its getOrSetCache call stands
  key,              \* caller -> the key argument
  remoteTtl,        \* caller -> the remoteTtl argument
  localTtlArg,      \* caller -> the localTtl argument
  localTtl2,        \* caller -> twice the local variable localTtl
  awaiting,         \* caller -> namespace -> the caller whose promise it awaited
  got,              \* caller -> what its last await produced
  outcome,          \* caller -> what the call returned (a value) or Rejected
  localWrites,      \* caller -> the setCacheLocal calls it made
  remoteWrites,     \* caller -> the setCacheRemote calls it made
  cached,           \* caller -> the local variable cached of line 583
  cachedValue,      \* caller -> the local variable cachedValue of line 577
  lateCall,         \* key -> a call for it started after another call for it had returned
  remote0,          \* the shared store when the process started
  site              \* the TTL arguments the call site passes to getOrSetCache

VARIABLES
  batch,      \* batchProcess call -> its arguments, local variables and history
  handlerOf,  \* key -> what the handler resolves to for an item with that key
  work,       \* worker -> the deleteInCache, tryInvalidate... or setCache call it makes
  spread,     \* a call of spreadTtl: its argument, its draws and its result
  conn        \* the redis client: commands and replies under way, and the history
              \* of the getCacheRemote and setCacheRemote calls made directly

batchVars == <<batch, handlerOf>>

otherVars == <<work, spread, conn>>

vars == <<local, remote, pendingPromises, opResult, invocations, pc, key, remoteTtl,
          localTtlArg, localTtl2, awaiting, got, outcome, localWrites, remoteWrites,
          cached, cachedValue, lateCall, remote0, site>>

callVars == <<key, remoteTtl, localTtlArg, localTtl2, cachedValue, lateCall, site>>

\* the tiers and the call site of the getOrSetCache calls
InitGetOrSet ==
  /\ local = [k \in Keys |-> AbsentLocal]
  /\ remote \in [Keys -> {AbsentRemote} \cup {RemoteEntry(t, 3) : t \in InitialTexts}]
  /\ \A k \in Keys \ SingleKeys : remote[k] = AbsentRemote
  /\ remote0 = remote
  /\ site \in [remoteTtl : RemoteTtlInputs, localTtl : LocalTtlInputs]

\* no getOrSetCache call has been made
IdleCallers ==
  /\ pendingPromises = [o \in OpKeys |-> NoHandle]
  /\ opResult = [c \in Callers |-> [ns \in Namespaces |-> Pending]]
  /\ invocations = [k \in Keys |-> 0]
  /\ pc = [c \in Callers |-> "idle"]
  /\ key = [c \in Callers |-> "k1"]
  /\ remoteTtl = [c \in Callers |-> 0]
  /\ localTtlArg = [c \in Callers |-> NotGiven]
  /\ localTtl2 = [c \in Callers |-> 0]
  /\ awaiting = [c \in Callers |-> [ns \in Namespaces |-> NoHandle]]
  /\ got = [c \in Callers |-> Undefined]
  /\ outcome = [c \in Callers |-> Undefined]
  /\ localWrites = [c \in Callers |-> {}]
  /\ remoteWrites = [c \in Callers |-> {}]
  /\ cached = [c \in Callers |-> Undefined]
  /\ cachedValue = [c \in Callers |-> Undefined]
  /\ lateCall = [k \in Keys |-> FALSE]

(***************************************************************************)
(* executeWithPendingPromise (lines 350-365).                              *)
(***************************************************************************)
\* a lookup that never finds the registered handle
PendingLookupBlind(o) == NoHandle

\* line 351: the handle registered under the operation key, if any
PendingLookup(o) == pendingPromises[o]

\* line 358: this.pendingPromises[key] = pendingGetRemote
RegisterPending(o, c) == [pendingPromises EXCEPT ![o] = c]

\* a removal that runs on success only (no finally block)
RemovePendingOnSuccess(o, result) ==
  IF result = Rejected THEN pendingPromises ELSE [pendingPromises EXCEPT ![o] = NoHandle]

\* line 362: the finally block, on success and on failure alike
RemovePending(o, result) == [pendingPromises EXCEPT ![o] = NoHandle]

\* a default local TTL that is the whole remote TTL
DefaultLocalTtl2NotHalved(rt, lt) == IF (~lt.given) \/ lt.v = 0 THEN 2 * rt ELSE 2 * lt.v

\* the value of localTtl after lines 571-573, doubled
DefaultLocalTtl2(rt, lt) == IF (~lt.given) \/ lt.v = 0 THEN rt ELSE 2 * lt.v

\* setCacheLocal (lines 376-378) by caller c
SetCacheLocal(c, k, v, ttl2) ==
  /\ local' = [local EXCEPT ![k] = LocalEntry(v, ttl2)]
  /\ localWrites' = [localWrites EXCEPT ![c] = @ \cup {[key |-> k, value |-> v, ttl2 |-> ttl2]}]

(***************************************************************************)
(* getOrSetCache (lines 570-603).                                          *)
(***************************************************************************)
\* lines 570-577: the call, up to the read of the local tier
GetOrSetCache(c, k, rt, lt) ==
  /\ UNCHANGED <<batchVars, otherVars>>
  /\ pc[c] = "idle"
  /\ rt = site.remoteTtl /\ lt = site.localTtl
  /\ key' = [key EXCEPT ![c] = k]
  /\ remoteTtl' = [remoteTtl EXCEPT ![c] = rt]
  /\ localTtlArg' = [localTtlArg EXCEPT ![c] = lt]
  /\ localTtl2' = [localTtl2 EXCEPT ![c] = DefaultLocalTtl2(rt, lt)]
  /\ lateCall' = [lateCall EXCEPT ![k] = @ \/ \E d \in Callers : pc[d] = "done" /\ key[d] = k]
  /\ got' = [got EXCEPT ![c] = LocalGet(local, k)]
  /\ cachedValue' = [cachedValue EXCEPT ![c] = LocalGet(local, k)]
  /\ pc' = [pc EXCEPT ![c] = "afterLocal"]
  /\ UNCHANGED <<local, remote, pendingPromises, opResult, invocations, awaiting, outcome,
                 localWrites, remoteWrites, cached, remote0, site>>

\* lines 578-581: a local hit returns
LocalHit(c) ==
  /\ UNCHANGED <<batchVars, otherVars>>
  /\ pc[c] = "afterLocal"
  /\ got[c] # Undefined
  /\ outcome' = [outcome EXCEPT ![c] = got[c]]
  /\ pc' = [pc EXCEPT ![c] = "done"]
  /\ UNCHANGED <<local, remote, pendingPromises, opResult, invocations, awaiting, got,
                 localWrites, remoteWrites, cached, remote0, callVars>>

\* lines 583, 367-368, 350-360: a local miss calls getCacheRemote, which joins the
\* pending `caching:get:` promise or sends GET and registers its promise
GetCacheRemote(c) ==
  /\ UNCHANGED <<batchVars, otherVars>>
  /\ pc[c] = "afterLocal"
  /\ got[c] = Undefined
  /\ LET o == OpKey("get", key[c])
         h == PendingLookup(o)
     IN IF h # NoHandle
        THEN /\ awaiting' = [awaiting EXCEPT ![c]["get"] = h]
             /\ pc' = [pc EXCEPT ![c] = "joinGet"]
             /\ UNCHANGED <<pendingPromises, opResult>>
        ELSE /\ awaiting' = [awaiting EXCEPT ![c]["get"] = c]
             /\ opResult' = [opResult EXCEPT ![c]["get"] = Pending]
             /\ pendingPromises' = RegisterPending(o, c)
             /\ pc' = [pc EXCEPT ![c] = "awaitGet"]
  /\ UNCHANGED <<local, remote, invocations, got, outcome, localWrites, remoteWrites,
                 cached, remote0, callVars>>

\* caller c has a continuation that is ready to run
Ready(c) ==
  \/ pc[c] \in {"afterLocal", "afterGet", "afterSet"}
  \/ pc[c] = "awaitGet" /\ opResult[c]["get"] # Pending
  \/ pc[c] = "awaitSet" /\ opResult[c]["set"] # Pending
  \/ pc[c] = "joinGet" /\ opResult[awaiting[c]["get"]]["get"] # Pending
  \/ pc[c] = "joinSet" /\ opResult[awaiting[c]["set"]]["set"] # Pending

\* the event loop delivers an I/O callback only when no continuation is ready
Quiescent == \A c \in Callers : ~Ready(c)

\* the store answers the GET of caller c (line 368's asyncGet), or the call fails
AsyncGetSettles(c) ==
  /\ UNCHANGED <<batchVars, otherVars>>
  /\ Quiescent
  /\ pc[c] = "awaitGet"
  /\ opResult[c]["get"] = Pending
  /\ \E r \in {RedisGet(remote, key[c]), Rejected} :
       opResult' = [opResult EXCEPT ![c]["get"] = r]
  /\ UNCHANGED <<local, remote, pendingPromises, invocations, pc, awaiting, got, outcome,
                 localWrites, remoteWrites, cached, remote0, callVars>>

\* an await whose failure is swallowed and becomes null
AwaitResultSwallowed(h, ns) == IF opResult[h][ns] = Rejected THEN Null ELSE opResult[h][ns]

\* lines 353 and 360: what `await pendingGetRemote` produces once the promise of
\* caller h has settled: its value, or its failure, which is thrown on
AwaitResult(h, ns) == opResult[h][ns]

\* lines 360-363: the caller that registered the promise resumes and removes the entry
ResumeRegistrant(c, ns) ==
  /\ UNCHANGED <<batchVars, otherVars>>
  /\ pc[c] = (IF ns = "get" THEN "awaitGet" ELSE "awaitSet")
  /\ opResult[c][ns] # Pending
  /\ pendingPromises' = RemovePending(OpKey(ns, key[c]), opResult[c][ns])
  /\ got' = [got EXCEPT ![c] = AwaitResult(c, ns)]
  /\ pc' = [pc EXCEPT ![c] = (IF ns = "get" THEN "afterGet" ELSE "afterSet")]
  /\ UNCHANGED <<local, remote, opResult, invocations, awaiting, outcome, localWrites,
                 remoteWrites, cached, remote0, callVars>>

\* line 353: a caller that found the promise pending resumes with its result
ResumeJoiner(c, ns) ==
  /\ UNCHANGED <<batchVars, otherVars>>
  /\ pc[c] = (IF ns = "get" THEN "joinGet" ELSE "joinSet")
  /\ opResult[awaiting[c][ns]][ns] # Pending
  /\ got' = [got EXCEPT ![c] = AwaitResult(awaiting[c][ns], ns)]
  /\ pc' = [pc EXCEPT ![c] = (IF ns = "get" THEN "afterGet" ELSE "afterSet")]
  /\ UNCHANGED <<local, remote, pendingPromises, opResult, invocations, awaiting, outcome,
                 localWrites, remoteWrites, cached, remote0, callVars>>

\* lines 369-373: what getCacheRemote makes of the store's answer
ParseResponse(response) == IF response = RedisNil THEN Null ELSE JsonParse(response)

\* a check that takes every remote answer for a miss
IsRemoteHitNever(v) == FALSE

\* line 584: the remote tier counts as hit
IsRemoteHit(v) == v # Undefined /\ v # Null

\* lines 583-592: the remote answer is a failure (the call raises), a hit (backfill the
\* local tier and return) or a miss (populate through `caching:set:`)
AfterGetCacheRemote(c) ==
  /\ UNCHANGED <<batchVars, otherVars>>
  /\ pc[c] = "afterGet"
  /\ LET v == IF got[c] = Rejected THEN Rejected ELSE ParseResponse(got[c])
         o == OpKey("set", key[c])
         h == PendingLookup(o)
     IN /\ cached' = [cached EXCEPT ![c] = v]
        /\ IF v \in {Rejected, ParseError}
           THEN /\ outcome' = [outcome EXCEPT ![c] = Rejected]
                /\ pc' = [pc EXCEPT ![c] = "done"]
                /\ UNCHANGED <<local, localWrites, pendingPromises, opResult, invocations,
                               awaiting>>
           ELSE IF IsRemoteHit(v)
           THEN /\ SetCacheLocal(c, key[c], v, localTtl2[c])
                /\ outcome' = [outcome EXCEPT ![c] = v]
                /\ pc' = [pc EXCEPT ![c] = "done"]
                /\ UNCHANGED <<pendingPromises, opResult, invocations, awaiting>>
           ELSE IF h # NoHandle
           THEN /\ awaiting' = [awaiting EXCEPT ![c]["set"] = h]
                /\ pc' = [pc EXCEPT ![c] = "joinSet"]
                /\ UNCHANGED <<local, localWrites, pendingPromises, opResult, invocations,
                               outcome>>
           ELSE /\ awaiting' = [awaiting EXCEPT ![c]["set"] = c]
                /\ invocations' = [invocations EXCEPT ![key[c]] = @ + 1]
                /\ opResult' = [opResult EXCEPT ![c]["set"] = Pending]
                /\ pendingPromises' = RegisterPending(o, c)
                /\ pc' = [pc EXCEPT ![c] = "awaitSet"]
                /\ UNCHANGED <<local, localWrites, outcome>>
  /\ UNCHANGED <<remote, got, remoteWrites, remote0, callVars>>

\* the population function of caller c resolves to a value, or fails
PromiseSettles(c) ==
  /\ UNCHANGED <<batchVars, otherVars>>
  /\ Quiescent
  /\ pc[c] = "awaitSet"
  /\ opResult[c]["set"] = Pending
  /\ \E r \in PopulateValues \cup {Rejected} :
       opResult' = [opResult EXCEPT ![c]["set"] = r]
  /\ UNCHANGED <<local, remote, pendingPromises, invocations, pc, awaiting, got, outcome,
                 localWrites, remoteWrites, cached, remote0, callVars>>

\* line 595 / line 599: the guards of the two write-backs
WritesLocal(ttl2) == ttl2 > 0

WritesRemote(ttl) == ttl > 0

\* lines 592-599: a failed population raises; otherwise write the local tier (line 596)
\* and go on to the remote tier, or return when remoteTtl is not positive
AfterPopulate(c) ==
  /\ UNCHANGED <<batchVars, otherVars>>
  /\ pc[c] = "afterSet"
  /\ IF got[c] = Rejected
     THEN /\ outcome' = [outcome EXCEPT ![c] = Rejected]
          /\ pc' = [pc EXCEPT ![c] = "done"]
          /\ UNCHANGED <<local, localWrites>>
     ELSE /\ IF WritesLocal(localTtl2[c])
             THEN SetCacheLocal(c, key[c], got[c], localTtl2[c])
             ELSE UNCHANGED <<local, localWrites>>
          /\ IF WritesRemote(remoteTtl[c])
             THEN /\ pc' = [pc EXCEPT ![c] = "awaitSetRemote"]
                  /\ UNCHANGED outcome
             ELSE /\ outcome' = [outcome EXCEPT ![c] = got[c]]
                  /\ pc' = [pc EXCEPT ![c] = "done"]
  /\ UNCHANGED <<remote, pendingPromises, opResult, invocations, awaiting, got,
                 remoteWrites, cached, remote0, callVars>>

\* lines 600-602, 343-346: setCacheRemote; the store executes the SET and the call
\* returns the value, or the SET fails and the call raises
SetCacheRemote(c) ==
  /\ UNCHANGED <<batchVars, otherVars>>
  /\ Quiescent
  /\ pc[c] = "awaitSetRemote"
  /\ \/ /\ remote' = [remote EXCEPT ![key[c]] = RemoteEntry(JsonStringify(got[c]), remoteTtl[c])]
        /\ remoteWrites' = [remoteWrites EXCEPT ![c] =
               @ \cup {[key |-> key[c], value |-> got[c], ttl |-> remoteTtl[c]]}]
        /\ outcome' = [outcome EXCEPT ![c] = got[c]]
     \/ /\ outcome' = [outcome EXCEPT ![c] = Rejected]
        /\ UNCHANGED <<remote, remoteWrites>>
  /\ pc' = [pc EXCEPT ![c] = "done"]
  /\ UNCHANGED <<local, pendingPromises, opResult, invocations, awaiting, got,
                 localWrites, cached, remote0, callVars>>

Next ==
  \/ \E c \in Callers, k \in SingleKeys, rt \in RemoteTtlInputs, lt \in LocalTtlInputs :
       GetOrSetCache(c, k, rt, lt)
  \/ \E c \in Callers : LocalHit(c)
  \/ \E c \in Callers : GetCacheRemote(c)
  \/ \E c \in Callers : AsyncGetSettles(c)
  \/ \E c \in Callers, ns \in Namespaces : ResumeRegistrant(c, ns)
  \/ \E c \in Callers, ns \in Namespaces : ResumeJoiner(c, ns)
  \/ \E c \in Callers : AfterGetCacheRemote(c)
  \/ \E c \in Callers : PromiseSettles(c)
  \/ \E c \in Callers : AfterPopulate(c)
  \/ \E c \in Callers : SetCacheRemote(c)

(***************************************************************************)
(* The batch path: batchProcess (lines 411-437), batchProcessChunk (lines  *)
(* 439-475), spreadTtl (477-489), batchSetCache (491-528), getChunks       *)
(* (540-552) and batchGetCache (554-568).                                  *)
(***************************************************************************)
NumBatches == 2

Batches == 1..NumBatches

\* the longest payload of the calls that run side by side
MaxItems == 3

\* configuration: getPoolLimit() and getProcessTtl()
PoolLimit == 2

ProcessTtl == 60

\* the ttl a batchProcess call passes: one that spreadTtl perturbs, one that it leaves
BatchTtl == 600

ShortTtl == 100

\* program constants
BatchChunkSize == 100

GetChunkSize == 100

SetChunkSize == 25

MaxAttempts == 3

SpreadThreshold == 300

SpreadPercent == 10

\* Math.random(), in tenths
RandomTenths == {0, 9}

Min(a, b) == IF a <= b THEN a ELSE b

\* the items of a payload of n elements, and cacheKeyFunction and handler on them
Payload(n) == [i \in 1..n |-> i]

KeySeq == <<"k1", "k2", "k3">>

CacheKeyFunction(item) == KeySeq[((item - 1) % 3) + 1]

HandlerChoices ==
  { [k \in Keys |-> CASE k = "k1" -> StrA [] k = "k2" -> Null [] OTHER -> StrB],
    [k \in Keys |-> CASE k = "k1" -> Zero [] k = "k2" -> StrA [] OTHER -> StrA] }

\* what the shared store may hold when a batch specification starts
BatchStores ==
  { [k \in Keys |-> AbsentRemote],
    [k \in Keys |-> IF k = "k2" THEN RemoteEntry("\"b\"", BatchTtl) ELSE AbsentRemote],
    [k \in Keys |-> CASE k = "k1" -> RemoteEntry("0", BatchTtl)
                      [] k = "k2" -> RemoteEntry("null", ProcessTtl)
                      [] OTHER    -> RemoteEntry("\"a\"", BatchTtl)],
    [k \in Keys |-> IF k = "k3" THEN RemoteEntry(Corrupt, BatchTtl) ELSE AbsentRemote] }

\* a split that drops the last, shorter chunk
NumChunksFloor(n, size) == n \div size

\* getChunks (lines 540-552): the number of chunks and the c-th chunk
NumChunks(n, size) == (n + size - 1) \div size

GetChunk(array, size, c) == SubSeq(array, (c - 1) * size + 1, Min(c * size, Len(array)))

NotReturned == <<"<no result>">>

singleVars == <<pendingPromises, opResult, invocations, pc, key, remoteTtl, localTtlArg,
                localTtl2, awaiting, got, outcome, localWrites, remoteWrites, cached,
                cachedValue, lateCall, remote0, site>>

allVars == <<vars, batchVars, otherVars>>

IdleBatch(items, t, skip) ==
  [ pc        |-> "idle",
    payload   |-> items,       \* argument payload
    ttl       |-> t,           \* argument ttl
    skipCache |-> skip,        \* argument skipCache
    chunkNo   |-> 0,           \* which chunk the for loop of line 416 is at
    retries   |-> 0,           \* line 419
    attempts  |-> << >>,       \* per chunk, the calls of batchProcessChunk so far
    result    |-> << >>,       \* line 412
    hits      |-> << >>,       \* per item, what the cache answered (null: a miss)
    cached    |-> << >>,       \* line 442
    missing   |-> << >>,       \* line 449
    values    |-> << >>,       \* line 454, Undefined where the handler has not resolved
    started   |-> 0,           \* asyncPool: how many of the missing items it has started
    inflight  |-> {},          \* asyncPool: the missing items whose handler is running
    zombies   |-> 0,           \* handler calls left running by failed attempts
    overtaken |-> FALSE,       \* a handler call resolved before one started earlier
    sets      |-> << >>,       \* the SET commands of the last asyncMulti
    localSets |-> << >>,       \* the setCacheLocal calls of the last batchSetCache
    mgets     |-> 0,           \* the asyncMGet calls so far
    mgetSizes |-> << >>,       \* the number of keys of each asyncMGet call so far
    held      |-> << >>,       \* per key of the chunk, the store held it at the MGET
    outcome   |-> "pending",   \* "returned" or "raised" once the call is over
    returned  |-> NotReturned ]

HandlerValue(item) == handlerOf[CacheKeyFunction(item)]

\* line 414 / 422: the chunk the call is at, and its keys (line 440)
CurrentChunk(r) == GetChunk(r.payload, BatchChunkSize, r.chunkNo)

ChunkKeys(r) ==
  LET chunk == CurrentChunk(r)
  IN  [i \in 1..Len(chunk) |-> CacheKeyFunction(chunk[i])]

\* lines 449-452: the indices whose cached element is null, in order
MissingOf(cachedSeq) ==
  LET isNull(i) == cachedSeq[i] = Null
  IN  SelectSeq([i \in 1..Len(cachedSeq) |-> i], isNull)

Missing(r) == r.missing

\* missing.indexOf(index); the elements of missing are distinct
IndexOf(seq, x) == CHOOSE j \in 1..Len(seq) : seq[j] = x

\* lines 472-474: the chunk's output
ChunkOutput(r) ==
  LET missing == Missing(r)
      isMissing == {missing[j] : j \in 1..Len(missing)}
  IN  [i \in 1..Len(r.cached) |->
         IF i \in isMissing THEN r.values[IndexOf(missing, i)] ELSE r.cached[i]]

\* a chunk restarting the retry counter where the previous chunk left it
RetriesOfNextChunkKept(previous) == previous

\* line 419: let retries = 0, for each chunk
RetriesOfNextChunk(previous) == 0

\* line 422: batchProcessChunk is called for the current chunk, up to its first
\* await (lines 440-447): asyncMGet is sent, or with skipCache the pool starts
BeginAttempt(r) ==
  LET n == Len(GetChunk(r.payload, BatchChunkSize, r.chunkNo))
  IN  [r EXCEPT !.attempts[r.chunkNo] = @ + 1,
                !.cached   = IF r.skipCache THEN [i \in 1..n |-> Null] ELSE << >>,
                !.missing  = IF r.skipCache THEN [i \in 1..n |-> i] ELSE << >>,
                !.values   = IF r.skipCache THEN [i \in 1..n |-> Undefined] ELSE << >>,
                !.started  = 0,
                !.inflight = {},
                !.overtaken = FALSE,
                !.mgets    = IF r.skipCache THEN @ ELSE @ + NumChunks(n, GetChunkSize),
                !.mgetSizes = IF r.skipCache THEN @
                              ELSE @ \o [c \in 1..NumChunks(n, GetChunkSize) |->
                                           Len(GetChunk([i \in 1..n |-> i], GetChunkSize, c))],
                !.held     = << >>,
                !.pc       = IF r.skipCache THEN "pool" ELSE "mget"]

\* lines 423-424, 416, 436: the chunk's output is appended; the next chunk starts, or
\* the call returns result
ChunkDone(r, out) ==
  LET done == [r EXCEPT !.result = @ \o out, !.hits = @ \o r.cached]
  IN  IF r.chunkNo = NumChunks(Len(r.payload), BatchChunkSize)
      THEN [done EXCEPT !.pc = "done", !.outcome = "returned", !.returned = done.result]
      ELSE BeginAttempt([done EXCEPT !.chunkNo = @ + 1,
                                     !.retries = RetriesOfNextChunk(r.retries)])

\* a catch block that calls batchProcessChunk again without counting
ChunkFailedRetryForever(r) == [BeginAttempt(r) EXCEPT !.attempts = r.attempts,
                                                       !.mgets = r.mgets,
                                                       !.mgetSizes = r.mgetSizes]

\* lines 425-432: the catch block
ChunkFailed(r) ==
  LET failed == [r EXCEPT !.retries = @ + 1]
  IN  IF failed.retries >= MaxAttempts
      THEN [failed EXCEPT !.pc = "done", !.outcome = "raised"]
      ELSE BeginAttempt(failed)

\* lines 411-422: the call
BatchProcess(b) ==
  /\ batch[b].pc = "idle"
  /\ LET r == batch[b]
         chunks == NumChunks(Len(r.payload), BatchChunkSize)
     IN  batch' = [batch EXCEPT ![b] =
           IF chunks = 0
           THEN [r EXCEPT !.pc = "done", !.outcome = "returned", !.returned = << >>]
           ELSE BeginAttempt([r EXCEPT !.chunkNo = 1,
                                       !.attempts = [c \in 1..chunks |-> 0]])]
  /\ UNCHANGED <<local, remote, handlerOf, singleVars, otherVars>>

\* line 562: value ? JSON.parse(value) : null
ParseCached(text) == IF text = RedisNil THEN Null ELSE JsonParse(text)

\* lines 446, 554-568: the store answers the MGET of the chunk (one asyncMGet call, the
\* chunk holding at most 100 keys, line 555), or the call fails; lines 449-456 follow
AsyncMGetSettles(b) ==
  /\ batch[b].pc = "mget"
  /\ LET r == batch[b]
         keys == ChunkKeys(r)
         parsed == [i \in 1..Len(keys) |-> ParseCached(RedisGet(remote, keys[i]))]
         ok == [r EXCEPT !.cached = parsed,
                         !.held = [i \in 1..Len(keys) |-> remote[keys[i]].present],
                         !.missing = MissingOf(parsed),
                         !.values = [j \in 1..Len(MissingOf(parsed)) |-> Undefined],
                         !.pc = "pool"]
     IN  \/ batch' = [batch EXCEPT ![b] = ChunkFailed(r)]
         \/ /\ \E i \in 1..Len(keys) : parsed[i] = ParseError
            /\ batch' = [batch EXCEPT ![b] = ChunkFailed(r)]
         \/ /\ \A i \in 1..Len(keys) : parsed[i] # ParseError
            /\ batch' = [batch EXCEPT ![b] =
                 IF Missing(ok) = << >> THEN ChunkDone(ok, ChunkOutput(ok)) ELSE ok]
  /\ UNCHANGED <<local, remote, handlerOf, singleVars, otherVars>>

\* a pool that starts every item at once
CanStartAlways(running) == TRUE

\* tiny-async-pool: the loop starts the next item while fewer than poolLimit run
CanStart(running) == running < PoolLimit

\* results taken in the order in which the handler calls complete
PoolResultByCompletion(vals, j, v) ==
  LET slot == CHOOSE h \in 1..Len(vals) :
                vals[h] = Undefined /\ \A g \in 1..(h - 1) : vals[g] # Undefined
  IN  [vals EXCEPT ![slot] = v]

\* asyncPool resolves to the results in the order of its input (Promise.all)
PoolResult(vals, j, v) == [vals EXCEPT ![j] = v]

\* lines 457-461: asyncPool starts the handler of the next missing item
PoolStart(b) ==
  /\ batch[b].pc = "pool"
  /\ batch[b].started < Len(batch[b].values)
  /\ CanStart(Cardinality(batch[b].inflight))
  /\ batch' = [batch EXCEPT ![b].started = @ + 1,
                            ![b].inflight = @ \cup {batch[b].started + 1}]
  /\ UNCHANGED <<local, remote, handlerOf, singleVars, otherVars>>

\* the handler of the j-th missing item resolves, or fails: then asyncPool rejects,
\* the attempt fails, and the other running handler calls are left running
PoolSettle(b, j) ==
  /\ batch[b].pc = "pool"
  /\ j \in batch[b].inflight
  /\ LET r == batch[b]
         item == CurrentChunk(r)[Missing(r)[j]]
     IN  \/ batch' = [batch EXCEPT ![b].inflight = @ \ {j},
                                   ![b].overtaken = @ \/ \E h \in r.inflight : h < j,
                                   ![b].values = PoolResult(@, j, HandlerValue(item))]
         \/ batch' = [batch EXCEPT ![b] =
              ChunkFailed([r EXCEPT !.zombies = @ + Cardinality(r.inflight) - 1])]
  /\ UNCHANGED <<local, remote, handlerOf, singleVars, otherVars>>

\* a handler call left running by a failed attempt ends
ZombieSettles(b) ==
  /\ batch[b].zombies > 0
  /\ batch' = [batch EXCEPT ![b].zombies = @ - 1]
  /\ UNCHANGED <<local, remote, handlerOf, singleVars, otherVars>>

\* lines 457-461 for a call that runs alone: asyncPool as one step, resolving to the
\* handler's values in input order or rejecting
AsyncPoolSettles(b) ==
  /\ batch[b].pc = "pool"
  /\ batch[b].started = 0
  /\ LET r == batch[b]
         missing == Missing(r)
         chunk == CurrentChunk(r)
     IN  \/ batch' = [batch EXCEPT ![b].started = Len(missing),
                        ![b].values = [j \in 1..Len(missing) |-> HandlerValue(chunk[missing[j]])]]
         \/ batch' = [batch EXCEPT ![b] = ChunkFailed(r)]
  /\ UNCHANGED <<local, remote, handlerOf, singleVars, otherVars>>

\* the draws of Math.random() that one batchSetCache call consumes: the item at
\* position i takes the pair at position i modulo DrawPeriod
DrawPeriod == 1

Draws == [1..DrawPeriod -> [sign : RandomTenths, amount : RandomTenths]]

\* a spread that ignores the threshold
SpreadTtlAlways(ttl, signDraw, amountDraw) ==
  ttl + (IF signDraw >= 5 THEN 1 ELSE -1) * ((amountDraw * ttl * SpreadPercent) \div 1000)

\* spreadTtl (lines 477-489), given its two draws of Math.random() in tenths
SpreadTtl(ttl, signDraw, amountDraw) ==
  IF ttl >= SpreadThreshold
  THEN LET sign == IF signDraw >= 5 THEN 1 ELSE -1
           amount == (amountDraw * ttl * SpreadPercent) \div 1000
       IN  ttl + sign * amount
  ELSE ttl

\* line 466: the ttl of one resolved value
TtlFor(value, ttl) == IF Truthy(value) THEN ttl ELSE Min(ttl, ProcessTtl)

\* line 522: the ttl of the SET command of the item at position j of keys; index is
\* the position within the chunk of SetChunkSize the item falls in
SetCommandTtl(ttls, j) == ttls[((j - 1) % SetChunkSize) + 1]

\* a SET command that takes its value at the position within the chunk, as line 522
\* takes its ttl
SetCommandValueByChunkIndex(values, j) == values[((j - 1) % SetChunkSize) + 1]

\* lines 506-522: the value of the SET command of the item at position j of keys; the
\* element built at line 509 carries j, chunkValues holds values[...] of the elements
\* of the chunk (line 518) and the command takes chunkValues[index]
SetCommandValue(values, j) ==
  LET c == ((j - 1) \div SetChunkSize) + 1
      chunk == GetChunk([i \in 1..Len(values) |-> i], SetChunkSize, c)
      chunkValues == [i \in 1..Len(chunk) |-> values[chunk[i]]]
  IN  chunkValues[((j - 1) % SetChunkSize) + 1]

\* the last element of a sequence of commands that writes key k, 0 if none does
LastWriteOf(commands, k) ==
  LET writes == {j \in 1..Len(commands) : commands[j].key = k}
  IN  IF writes = {} THEN 0 ELSE CHOOSE j \in writes : \A h \in writes : h <= j

\* lines 463-469 and 491-527: the pool has resolved; params are built, every ttl is
\* spread, the local tier is written, and the SET commands are sent in one asyncMulti
BatchSetCache(b) ==
  /\ batch[b].pc = "pool"
  /\ batch[b].started = Len(batch[b].values)
  /\ batch[b].inflight = {}
  /\ \E draws \in Draws :
       LET r == batch[b]
           missing == Missing(r)
           chunkKeys == ChunkKeys(r)
           keys == [j \in 1..Len(missing) |-> chunkKeys[missing[j]]]
           values == r.values
           draw(j) == draws[((j - 1) % DrawPeriod) + 1]
           ttls == [j \in 1..Len(values) |->
                      SpreadTtl(TtlFor(values[j], r.ttl), draw(j).sign, draw(j).amount)]
           localSets == [j \in 1..Len(keys) |->
                           [key |-> keys[j], value |-> values[j], ttl |-> ttls[j]]]
           sets == [j \in 1..Len(keys) |->
                      [key |-> keys[j], json |-> JsonStringify(SetCommandValue(values, j)),
                       ex |-> SetCommandTtl(ttls, j)]]
       IN  /\ local' = [k \in Keys |->
                          LET j == LastWriteOf(localSets, k)
                          IN  IF j = 0 THEN local[k]
                              ELSE LocalEntry(localSets[j].value, 2 * localSets[j].ttl)]
           /\ batch' = [batch EXCEPT ![b].pc = "multi", ![b].sets = sets,
                                     ![b].localSets = localSets]
  /\ UNCHANGED <<remote, handlerOf, singleVars, otherVars>>

\* line 527: the store executes the commands, or the call fails; lines 472-474 follow
AsyncMultiSettles(b) ==
  /\ batch[b].pc = "multi"
  /\ LET r == batch[b]
     IN  \/ /\ remote' = [k \in Keys |->
                            LET j == LastWriteOf(r.sets, k)
                            IN  IF j = 0 THEN remote[k]
                                ELSE RemoteEntry(r.sets[j].json, r.sets[j].ex)]
            /\ batch' = [batch EXCEPT ![b] = ChunkDone(r, ChunkOutput(r))]
         \/ /\ batch' = [batch EXCEPT ![b] = ChunkFailed(r)]
            /\ UNCHANGED remote
  /\ UNCHANGED <<local, handlerOf, singleVars, otherVars>>

(***************************************************************************)
(* setCache (lines 405-409), deleteInCache (lines 609-626) and the         *)
(* invalidation handlers (lines 628-667).  The three keys stand for        *)
(* k1 = `tokens:${AddressA}`, k2 = `tokens:${AddressB}` and                *)
(* k3 = `tokenProperties:TKN`.                                             *)
(***************************************************************************)
NumWorkers == 2

Workers == 1..NumWorkers

\* how many calls a worker makes one after the other
MaxOps == 2

\* getEsdtContractAddress() and two other addresses
EsdtContractAddress == "erd1esdt"

AddressA == "erd1a"

AddressB == "erd1b"

\* args[0] of a controlChanges transaction, and BinaryUtils.hexToString
TokenHex == "544b4e"

HexToString(hex) == IF hex = TokenHex THEN "TKN" ELSE "?"

\* lines 652, 659, 662: `tokens:${address}`; no store holds the key of the contract
TokensKey(address) ==
  CASE address = AddressA -> "k1"
    [] address = AddressB -> "k2"
    [] OTHER -> "tokens:erd1esdt"

\* line 640: `tokenProperties:${tokenIdentifier}`
TokenPropertiesKey(tokenIdentifier) ==
  IF tokenIdentifier = "TKN" THEN "k3" ELSE "tokenProperties:?"

\* keys that contain '*' (line 612) and the keys each of them matches
Patterns == {"tokens:*", "tokenProperties:*", "nft:*"}

IncludesStar(k) == k \in Patterns

PatternKeys(pattern) ==
  CASE pattern = "tokens:*" -> {"k1", "k2"}
    [] pattern = "tokenProperties:*" -> {"k3"}
    [] OTHER -> {}

\* the transactions the handlers are given
NoTx == [sender |-> "", receiver |-> "", func |-> "", args |-> << >>]

Transactions ==
  [sender : {EsdtContractAddress, AddressA}, receiver : {EsdtContractAddress, AddressB},
   func : {"controlChanges", "ESDTTransfer"}, args : {<<TokenHex>>}]
  \cup {[sender |-> AddressA, receiver |-> EsdtContractAddress, func |-> "controlChanges",
         args |-> << >>]}

\* LocalCacheService.deleteCacheKey
LocalDelete(store, k) == IF k \in Keys THEN [store EXCEPT ![k] = AbsentLocal] ELSE store

\* a DEL that the store does not carry out
AsyncDelNothing(store, k) == store

\* asyncDel (lines 616, 621)
AsyncDel(store, k) == IF k \in Keys THEN [store EXCEPT ![k] = AbsentRemote] ELSE store

\* the orders in which KEYS may enumerate a set of keys
Orderings(S) ==
  {seq \in [1..Cardinality(S) -> S] : \A i, j \in 1..Cardinality(S) : i # j => seq[i] # seq[j]}

\* asyncKeys (line 613): the keys of the store that match the pattern, in any order
AsyncKeys(store, pattern) == Orderings({k \in PatternKeys(pattern) : store[k].present})

NoCall == [op |-> "none", key |-> "", outcome |-> "none", returned |-> << >>]

IdleWork ==
  [ pc              |-> "idle",
    op              |-> "none",   \* the method called
    key             |-> "",       \* the key argument of deleteInCache or setCache
    tx              |-> NoTx,     \* the transaction argument of a handler
    value           |-> Undefined,\* the value argument of setCache
    ttl             |-> 0,        \* the ttl argument of setCache
    target          |-> "",       \* the key argument of the running deleteInCache call
    allKeys         |-> << >>,    \* line 613, or the single key of lines 620-622
    index           |-> 0,        \* the position of the for loop of line 614
    invalidatedKeys |-> << >>,    \* line 610
    queue           |-> << >>,    \* the keys of the deleteInCache calls still to make
    outcome         |-> "none",   \* "returned" or "raised" once the call is over
    returned        |-> << >>,    \* what the call returned
    ops             |-> 0,        \* the calls the worker has made
    prev            |-> NoCall,   \* the call the worker made before this one
    dels            |-> << >>,    \* the keys this call has issued a delete for
    removed         |-> {},       \* the keys this call removed from a tier that held them
    disturbed       |-> FALSE ]   \* another worker wrote a tier since this call began

CanStartOp(w) == work[w].pc \in {"idle", "done"} /\ work[w].ops < MaxOps

\* a new call by a worker whose record was r
NewCall(r, method) ==
  [IdleWork EXCEPT !.op = method, !.ops = r.ops + 1,
                   !.prev = [op |-> r.op, key |-> r.key, outcome |-> r.outcome,
                             returned |-> r.returned]]

\* the keys a call has removed, once it deletes k from a tier
Removed(r, store, k) == IF k \in Keys /\ store[k].present THEN r.removed \cup {k} ELSE r.removed

\* lines 609-613 and 620-621: deleteInCache(k) up to its first await: asyncKeys is sent,
\* or the local tier is deleted and asyncDel is sent
BeginDelete(r, k) ==
  IF IncludesStar(k)
  THEN [r EXCEPT !.pc = "keys", !.target = k, !.allKeys = << >>, !.index = 0,
                 !.invalidatedKeys = << >>]
  ELSE [r EXCEPT !.pc = "del", !.target = k, !.allKeys = <<k>>, !.index = 1,
                 !.invalidatedKeys = << >>, !.dels = Append(@, k),
                 !.removed = Removed(r, local, k)]

LocalAfterBeginDelete(k) == IF IncludesStar(k) THEN local ELSE LocalDelete(local, k)

\* the call is over
Returns(r, list) == [r EXCEPT !.pc = "done", !.outcome = "returned", !.returned = list]

Raises(r) == [r EXCEPT !.pc = "done", !.outcome = "raised"]

\* lines 609-623: a call of deleteInCache
DeleteInCache(w, k) ==
  /\ CanStartOp(w)
  /\ work' = [work EXCEPT ![w] = BeginDelete([NewCall(work[w], "deleteInCache") EXCEPT !.key = k], k)]
  /\ local' = LocalAfterBeginDelete(k)
  /\ UNCHANGED <<remote, singleVars, batchVars, spread, conn>>

\* a rule that every transaction matches
RuleTokensOnAccountAlways(tx) == TRUE

\* line 629 and 635-637; line 648; line 657: the rule of each handler
RuleTokenProperties(tx) ==
  /\ tx.receiver = EsdtContractAddress
  /\ tx.func = "controlChanges"
  /\ Len(tx.args) > 0

RuleTokensOnAccount(tx) == tx.sender = EsdtContractAddress

RuleTokenBalance(tx) == tx.func = "ESDTTransfer"

\* a handler is called: an unmatched transaction returns [], a matched one calls
\* deleteInCache with key k, the keys in later being deleted after it
Handle(w, method, tx, matched, k, later) ==
  /\ LET r == [NewCall(work[w], method) EXCEPT !.tx = tx]
     IN  IF matched
         THEN /\ work' = [work EXCEPT ![w] = BeginDelete([r EXCEPT !.queue = later], k)]
              /\ local' = LocalAfterBeginDelete(k)
         ELSE /\ work' = [work EXCEPT ![w] = Returns(r, << >>)]
              /\ UNCHANGED local
  /\ UNCHANGED <<remote, singleVars, batchVars, spread, conn>>

\* lines 628-645
TryInvalidateTokenProperties(w, tx) ==
  /\ CanStartOp(w)
  /\ Handle(w, "tryInvalidateTokenProperties", tx, RuleTokenProperties(tx),
            IF Len(tx.args) > 0 THEN TokenPropertiesKey(HexToString(tx.args[1])) ELSE "",
            << >>)

\* lines 647-653
TryInvalidateTokensOnAccount(w, tx) ==
  /\ CanStartOp(w)
  /\ Handle(w, "tryInvalidateTokensOnAccount", tx, RuleTokensOnAccount(tx),
            TokensKey(tx.receiver), << >>)

\* lines 655-667
TryInvalidateTokenBalance(w, tx) ==
  /\ CanStartOp(w)
  /\ Handle(w, "tryInvalidateTokenBalance", tx, RuleTokenBalance(tx),
            TokensKey(tx.sender), <<TokensKey(tx.receiver)>>)

\* what the caller of deleteInCache does with the list it returned (lines 640, 652,
\* 659-666): a key for the next deleteInCache call, or "" when the caller returns
NextTarget(r) ==
  IF r.op = "tryInvalidateTokenBalance" /\ r.queue # << >> THEN Head(r.queue) ELSE ""

AfterDelete(r, list) ==
  IF NextTarget(r) # ""
  THEN BeginDelete([r EXCEPT !.queue = Tail(@)], NextTarget(r))
  ELSE IF r.op = "tryInvalidateTokenBalance" THEN Returns(r, << >>)
  ELSE Returns(r, list)

\* line 613: the store answers KEYS, or the call fails; an empty answer ends
\* deleteInCache, otherwise lines 614-616 delete the first key from the local tier
\* and send its DEL
AsyncKeysSettles(w) ==
  /\ work[w].pc = "keys"
  /\ LET r == work[w]
     IN  \/ /\ work' = [work EXCEPT ![w] = Raises(r)]
            /\ UNCHANGED local
         \/ \E keys \in AsyncKeys(remote, r.target) :
              IF keys = << >>
              THEN /\ work' = [work EXCEPT ![w] = AfterDelete(r, << >>)]
                   /\ local' = IF NextTarget(r) # "" THEN LocalAfterBeginDelete(NextTarget(r))
                               ELSE local
              ELSE /\ work' = [work EXCEPT ![w] =
                        [r EXCEPT !.pc = "del", !.allKeys = keys, !.index = 1,
                                  !.dels = Append(@, keys[1]),
                                  !.removed = Removed(r, local, keys[1])]]
                   /\ local' = LocalDelete(local, keys[1])
  /\ UNCHANGED <<remote, singleVars, batchVars, spread, conn>>

\* lines 616-617 and 621-622: the store carries out the DEL, or the call fails; the
\* key is pushed and the loop goes on to the next key or deleteInCache returns
AsyncDelSettles(w) ==
  /\ work[w].pc = "del"
  /\ LET r == work[w]
         k == r.allKeys[r.index]
         pushed == [r EXCEPT !.invalidatedKeys = Append(@, k),
                             !.removed = Removed(r, remote, k)]
     IN  \/ /\ work' = [work EXCEPT ![w] = Raises(r)]
            /\ UNCHANGED <<local, remote>>
         \/ /\ remote' = AsyncDel(remote, k)
            /\ IF r.index < Len(r.allKeys)
               THEN /\ work' = [work EXCEPT ![w] =
                         [pushed EXCEPT !.index = @ + 1,
                                        !.dels = Append(@, r.allKeys[r.index + 1]),
                                        !.removed = Removed(pushed, local, r.allKeys[r.index + 1])]]
                    /\ local' = LocalDelete(local, r.allKeys[r.index + 1])
               ELSE /\ work' = [work EXCEPT ![w] = AfterDelete(pushed, pushed.invalidatedKeys)]
                    /\ local' = IF NextTarget(r) # "" THEN LocalAfterBeginDelete(NextTarget(r))
                                ELSE local
  /\ UNCHANGED <<singleVars, batchVars, spread, conn>>

\* every other worker sees that a tier was written
Disturb(w, r) == [u \in Workers |-> IF u = w THEN r ELSE [work[u] EXCEPT !.disturbed = TRUE]]

\* lines 405-407, 376-378: setCache writes the local tier and sends SET
SetCache(w, k, v, ttl) ==
  /\ CanStartOp(w)
  /\ local' = [local EXCEPT ![k] = LocalEntry(v, 2 * ttl)]
  /\ work' = Disturb(w, [NewCall(work[w], "setCache") EXCEPT
                           !.pc = "set", !.key = k, !.value = v, !.ttl = ttl])
  /\ UNCHANGED <<remote, singleVars, batchVars, spread, conn>>

\* lines 407-408, 343-345: the store carries out the SET and setCache returns the
\* value, or the call fails
AsyncSetSettles(w) ==
  /\ work[w].pc = "set"
  /\ LET r == work[w]
     IN  \/ /\ remote' = [remote EXCEPT ![r.key] = RemoteEntry(JsonStringify(r.value), r.ttl)]
            /\ work' = Disturb(w, Returns(r, <<r.value>>))
         \/ /\ work' = [work EXCEPT ![w] = Raises(r)]
            /\ UNCHANGED remote
  /\ UNCHANGED <<local, singleVars, batchVars, spread, conn>>

(***************************************************************************)
(* One call of spreadTtl (lines 477-489).                                  *)
(***************************************************************************)
\* the draws of Math.random(), in tenths
AllTenths == 0..9

SpreadInputs == {0, 1, 60, 299, 300, 301, 309, 600, 1000}

NoSpread == [ttl |-> 0, sign |-> 0, amount |-> 0, result |-> 0, called |-> FALSE]

CallSpreadTtl ==
  /\ ~spread.called
  /\ spread' = [spread EXCEPT !.result = SpreadTtl(spread.ttl, spread.sign, spread.amount),
                              !.called = TRUE]
  /\ UNCHANGED <<vars, batchVars, work, conn>>

(***************************************************************************)
(* getCacheRemote (lines 367-374) and setCacheRemote (lines 343-346)        *)
(* called directly, over the one redis client of the service (line 315):   *)
(* the client sends commands on one connection, the store executes them in *)
(* the order sent, and the client hands each reply to its callback.        *)
(***************************************************************************)
\* how many calls a caller makes one after the other
MaxCalls == 2

\* the values of the successive setCacheRemote calls, all different from one another
\* and from the value the store starts with
WriteValues == <<StrB, Zero>>

NoConn ==
  [ sent    |-> << >>,                          \* commands sent, not yet executed
    replies |-> << >>,                          \* replies not yet handed to a callback
    issued  |-> 0,                              \* the setCacheRemote calls made
    acked   |-> 0,                              \* the latest of them that has returned
    calls   |-> [c \in Callers |-> 0],          \* the calls each caller has made
    kind    |-> [c \in Callers |-> "none"],     \* the method of its last call
    floor   |-> [c \in Callers |-> 0] ]         \* acked when its last call started

\* a caller whose call is over, or that has made none, makes another call
CanCall(c) ==
  /\ Quiescent
  /\ pc[c] \in {"idle", "done"}
  /\ conn.calls[c] < MaxCalls

NewDirectCall(c, method) ==
  [conn EXCEPT !.calls[c] = @ + 1, !.kind[c] = method, !.floor[c] = conn.acked]

\* lines 367-368 and 350-360: getCacheRemote(k) joins the pending `caching:get:`
\* promise, or sends GET and registers its promise
CallGetCacheRemote(c, k) ==
  /\ CanCall(c)
  /\ key' = [key EXCEPT ![c] = k]
  /\ got' = [got EXCEPT ![c] = Undefined]
  /\ outcome' = [outcome EXCEPT ![c] = Undefined]
  /\ LET o == OpKey("get", k)
         h == PendingLookup(o)
         call == NewDirectCall(c, "getCacheRemote")
     IN IF h # NoHandle
        THEN /\ awaiting' = [awaiting EXCEPT ![c]["get"] = h]
             /\ pc' = [pc EXCEPT ![c] = "joinGet"]
             /\ conn' = call
             /\ UNCHANGED <<pendingPromises, opResult>>
        ELSE /\ awaiting' = [awaiting EXCEPT ![c]["get"] = c]
             /\ opResult' = [opResult EXCEPT ![c]["get"] = Pending]
             /\ pendingPromises' = RegisterPending(o, c)
             /\ pc' = [pc EXCEPT ![c] = "awaitGet"]
             /\ conn' = [call EXCEPT !.sent = Append(@,
                           [op |-> "get", caller |-> c, key |-> k, json |-> "", ttl |-> 0,
                            n |-> 0])]
  /\ UNCHANGED <<local, remote, invocations, remoteTtl, localTtlArg, localTtl2, localWrites,
                 remoteWrites, cached, cachedValue, lateCall, remote0, site, batchVars,
                 work, spread>>

\* lines 343-344: setCacheRemote(k, value, ttl) sends SET with JSON.stringify(value)
CallSetCacheRemote(c, k, ttl) ==
  /\ CanCall(c)
  /\ conn.issued < Len(WriteValues)
  /\ LET n == conn.issued + 1
         value == WriteValues[n]
     IN  /\ got' = [got EXCEPT ![c] = value]
         /\ conn' = [NewDirectCall(c, "setCacheRemote") EXCEPT
                       !.issued = n,
                       !.sent = Append(@, [op |-> "set", caller |-> c, key |-> k,
                                           json |-> JsonStringify(value), ttl |-> ttl,
                                           n |-> n])]
  /\ key' = [key EXCEPT ![c] = k]
  /\ outcome' = [outcome EXCEPT ![c] = Undefined]
  /\ pc' = [pc EXCEPT ![c] = "awaitAsyncSet"]
  /\ UNCHANGED <<local, remote, pendingPromises, opResult, invocations, remoteTtl,
                 localTtlArg, localTtl2, awaiting, localWrites, remoteWrites, cached,
                 cachedValue, lateCall, remote0, site, batchVars, work, spread>>

\* the store executes the command sent first, or fails it, and sends the reply
StoreExecutes ==
  /\ conn.sent # << >>
  /\ LET cmd == Head(conn.sent)
     IN  \E ok \in BOOLEAN :
           /\ remote' = IF ok /\ cmd.op = "set"
                        THEN [remote EXCEPT ![cmd.key] = RemoteEntry(cmd.json, cmd.ttl)]
                        ELSE remote
           /\ conn' = [conn EXCEPT
                         !.sent = Tail(@),
                         !.replies = Append(@,
                            [op |-> cmd.op, caller |-> cmd.caller, n |-> cmd.n,
                             result |-> IF ~ok THEN Rejected
                                        ELSE IF cmd.op = "get" THEN RedisGet(remote, cmd.key)
                                        ELSE "OK"])]
  /\ UNCHANGED <<local, singleVars, batchVars, work, spread>>

\* a client that hands over the reply received last
NextReplyLast(replies) == Len(replies)

\* the client hands the replies to the callbacks of the commands in the order in which
\* the commands were sent: the position of the reply handed over next
NextReply(replies) == 1

\* the callback of a command runs with its reply, once no continuation is ready: the
\* promise of asyncGet settles; or that of asyncSet does and setCacheRemote returns the
\* value (line 345) or raises
ReplyDelivered ==
  /\ Quiescent
  /\ conn.replies # << >>
  /\ LET i == NextReply(conn.replies)
         r == conn.replies[i]
         rest == [j \in 1..(Len(conn.replies) - 1) |->
                    IF j < i THEN conn.replies[j] ELSE conn.replies[j + 1]]
     IN  IF r.op = "get"
         THEN /\ opResult' = [opResult EXCEPT ![r.caller]["get"] = r.result]
              /\ conn' = [conn EXCEPT !.replies = rest]
              /\ UNCHANGED <<pc, outcome>>
         ELSE /\ pc' = [pc EXCEPT ![r.caller] = "done"]
              /\ outcome' = [outcome EXCEPT ![r.caller] =
                               IF r.result = Rejected THEN Rejected ELSE got[r.caller]]
              /\ conn' = [conn EXCEPT !.replies = rest,
                                      !.acked = IF r.result # Rejected /\ r.n > @ THEN r.n ELSE @]
              /\ UNCHANGED opResult
  /\ UNCHANGED <<local, remote, pendingPromises, invocations, key, remoteTtl, localTtlArg,
                 localTtl2, awaiting, got, localWrites, remoteWrites, cached, cachedValue,
                 lateCall, remote0, site, batchVars, work, spread>>

\* lines 369-373: getCacheRemote returns what it makes of the response, or raises
GetCacheRemoteReturns(c) ==
  /\ pc[c] = "afterGet"
  /\ LET v == IF got[c] = Rejected THEN Rejected ELSE ParseResponse(got[c])
     IN  outcome' = [outcome EXCEPT ![c] = IF v = ParseError THEN Rejected ELSE v]
  /\ pc' = [pc EXCEPT ![c] = "done"]
  /\ UNCHANGED <<local, remote, pendingPromises, opResult, invocations, key, remoteTtl,
                 localTtlArg, localTtl2, awaiting, got, localWrites, remoteWrites, cached,
                 cachedValue, lateCall, remote0, site, batchVars, otherVars>>

(***************************************************************************)
(* The specifications.  Spec: getOrSetCache calls running side by side.    *)
(* SpecPool: batchProcess calls with short payloads running side by side,  *)
(* the pool followed handler call by handler call.  SpecBatch: one         *)
(* batchProcess call with a payload of up to three chunks; SpecBatchLive   *)
(* adds that awaited calls settle.  SpecRace: getOrSetCache beside         *)
(* deleteInCache.  SpecReadWrite: getCacheRemote beside setCacheRemote.    *)
(* SpecInvalidate: deleteInCache, the handlers and setCache.  SpecSpread:  *)
(* one call of spreadTtl.                                                  *)
(***************************************************************************)
NoBatch == [b \in Batches |-> IdleBatch(<< >>, ShortTtl, FALSE)]

Init ==
  /\ InitGetOrSet
  /\ IdleCallers
  /\ batch = NoBatch
  /\ handlerOf = [k \in Keys |-> Null]
  /\ work = [w \in Workers |-> IdleWork]
  /\ spread = NoSpread
  /\ conn = NoConn

Spec == Init /\ [][Next]_allVars

\* the tiers when only batchProcess calls are made
InitTiers ==
  /\ local = [k \in Keys |-> AbsentLocal]
  /\ remote \in BatchStores
  /\ remote0 = remote
  /\ site = [remoteTtl |-> 0, localTtl |-> NotGiven]
  /\ IdleCallers
  /\ handlerOf \in HandlerChoices
  /\ work = [w \in Workers |-> IdleWork]
  /\ spread = NoSpread
  /\ conn = NoConn

InitPool ==
  /\ InitTiers
  /\ \E n \in 0..MaxItems, skip \in BOOLEAN :
       batch = [b \in Batches |-> IF b = 1 THEN IdleBatch(Payload(n), ShortTtl, skip)
                                           ELSE IdleBatch(Payload(MaxItems - 1), ShortTtl, TRUE)]

NextPool ==
  \/ \E b \in Batches : BatchProcess(b)
  \/ \E b \in Batches : AsyncMGetSettles(b)
  \/ \E b \in Batches : PoolStart(b)
  \/ \E b \in Batches, j \in 1..MaxItems : PoolSettle(b, j)
  \/ \E b \in Batches : ZombieSettles(b)
  \/ \E b \in Batches : BatchSetCache(b)
  \/ \E b \in Batches : AsyncMultiSettles(b)

SpecPool == InitPool /\ [][NextPool]_allVars

\* payload lengths that fill one more than a chunk of SET commands and one more than
\* a chunk of batchProcess
LongPayloads == {1, SetChunkSize + 1, BatchChunkSize + 1}

\* the arguments of the call: every combination for these lengths, and a payload of
\* three chunks read through the cache with the ttl that is not spread
BatchCalls ==
  [n : LongPayloads, ttl : {ShortTtl, BatchTtl}, skipCache : BOOLEAN]
  \cup {[n |-> 2 * BatchChunkSize + 1, ttl |-> ShortTtl, skipCache |-> FALSE]}

InitBatch ==
  /\ InitTiers
  /\ \E call \in BatchCalls :
       batch = [b \in Batches |-> IF b = 1 THEN IdleBatch(Payload(call.n), call.ttl, call.skipCache)
                                           ELSE IdleBatch(<< >>, call.ttl, FALSE)]

NextBatch ==
  \/ \E b \in Batches : BatchProcess(b)
  \/ \E b \in Batches : AsyncMGetSettles(b)
  \/ \E b \in Batches : AsyncPoolSettles(b)
  \/ \E b \in Batches : BatchSetCache(b)
  \/ \E b \in Batches : AsyncMultiSettles(b)

SpecBatch == InitBatch /\ [][NextBatch]_allVars

\* the steps of one batchProcess call
BatchStep(b) ==
  \/ BatchProcess(b)
  \/ AsyncMGetSettles(b)
  \/ AsyncPoolSettles(b)
  \/ BatchSetCache(b)
  \/ AsyncMultiSettles(b)

\* the guards of the steps of a call: one of them holds until the call is over
BatchStepEnabled(b) == batch[b].pc # "done"

\* every awaited call (asyncMGet, asyncPool, asyncMulti) settles, by resolving or by
\* rejecting, and the event loop runs the continuation of a settled await: weak
\* fairness of the steps of each call, written with the guard of the steps
SpecBatchLive ==
  SpecBatch /\ \A b \in Batches :
                 []<>(~BatchStepEnabled(b)) \/ []<><<BatchStep(b)>>_allVars

\* a deleteInCache call for key k has returned
DeleteReturned(k) ==
  \E w \in Workers :
    \/ work[w].op = "deleteInCache" /\ work[w].key = k /\ work[w].outcome = "returned"
    \/ work[w].prev.op = "deleteInCache" /\ work[w].prev.key = k
         /\ work[w].prev.outcome = "returned"

\* getOrSetCache calls for a key, none of them starting once a deleteInCache call for
\* the key has returned
GetOrSetCacheBeforeDelete(c, k, rt, lt) ==
  /\ ~DeleteReturned(k)
  /\ GetOrSetCache(c, k, rt, lt)

\* deleteInCache called, and its DEL answered, while getOrSetCache calls are under
\* way: both run as callbacks of the event loop, once no continuation is ready
DeleteInCacheBeside(w, k) ==
  /\ Quiescent
  /\ DeleteInCache(w, k)

AsyncDelSettlesBeside(w) ==
  /\ Quiescent
  /\ AsyncDelSettles(w)

NextRace ==
  \/ \E c \in Callers, k \in SingleKeys, rt \in RemoteTtlInputs, lt \in LocalTtlInputs :
       GetOrSetCacheBeforeDelete(c, k, rt, lt)
  \/ \E c \in Callers : LocalHit(c)
  \/ \E c \in Callers : GetCacheRemote(c)
  \/ \E c \in Callers : AsyncGetSettles(c)
  \/ \E c \in Callers, ns \in Namespaces : ResumeRegistrant(c, ns)
  \/ \E c \in Callers, ns \in Namespaces : ResumeJoiner(c, ns)
  \/ \E c \in Callers : AfterGetCacheRemote(c)
  \/ \E c \in Callers : PromiseSettles(c)
  \/ \E c \in Callers : AfterPopulate(c)
  \/ \E c \in Callers : SetCacheRemote(c)
  \/ \E k \in SingleKeys : DeleteInCacheBeside(1, k)
  \/ AsyncDelSettlesBeside(1)

\* getOrSetCache calls and deleteInCache calls for one key running side by side
SpecRace == Init /\ [][NextRace]_allVars

\* the store holds the key, or not, when the direct calls start
InitReadWrite ==
  /\ local = [k \in Keys |-> AbsentLocal]
  /\ remote \in { [k \in Keys |-> AbsentRemote],
                  [k \in Keys |-> IF k \in SingleKeys THEN RemoteEntry(JsonStringify(StrA), ShortTtl)
                                                     ELSE AbsentRemote] }
  /\ remote0 = remote
  /\ site = [remoteTtl |-> 0, localTtl |-> NotGiven]
  /\ IdleCallers
  /\ batch = NoBatch
  /\ handlerOf = [k \in Keys |-> Null]
  /\ work = [w \in Workers |-> IdleWork]
  /\ spread = NoSpread
  /\ conn = NoConn

NextReadWrite ==
  \/ \E c \in Callers, k \in SingleKeys : CallGetCacheRemote(c, k)
  \/ \E c \in Callers, k \in SingleKeys : CallSetCacheRemote(c, k, ShortTtl)
  \/ StoreExecutes
  \/ ReplyDelivered
  \/ \E c \in Callers : ResumeRegistrant(c, "get")
  \/ \E c \in Callers : ResumeJoiner(c, "get")
  \/ \E c \in Callers : GetCacheRemoteReturns(c)

\* getCacheRemote and setCacheRemote calls for one key running side by side
SpecReadWrite == InitReadWrite /\ [][NextReadWrite]_allVars

\* the tiers when setCache, deleteInCache and the handlers are called
InvalidateStores ==
  { [k \in Keys |-> AbsentRemote],
    [k \in Keys |-> RemoteEntry("\"a\"", ShortTtl)],
    [k \in Keys |-> IF k = "k2" THEN AbsentRemote ELSE RemoteEntry("\"b\"", ShortTtl)] }

InitInvalidate ==
  /\ local \in { [k \in Keys |-> AbsentLocal],
                 [k \in Keys |-> IF k = "k3" THEN AbsentLocal ELSE LocalEntry(StrA, ShortTtl)] }
  /\ remote \in InvalidateStores
  /\ remote0 = remote
  /\ site = [remoteTtl |-> 0, localTtl |-> NotGiven]
  /\ IdleCallers
  /\ batch = NoBatch
  /\ handlerOf = [k \in Keys |-> Null]
  /\ work = [w \in Workers |-> IdleWork]
  /\ spread = NoSpread
  /\ conn = NoConn

\* worker 1 deletes and invalidates, the other workers write
NextInvalidate ==
  \/ \E k \in {"k1", "k3"} \cup Patterns : DeleteInCache(1, k)
  \/ \E tx \in Transactions : TryInvalidateTokenProperties(1, tx)
  \/ \E tx \in Transactions : TryInvalidateTokensOnAccount(1, tx)
  \/ \E tx \in Transactions : TryInvalidateTokenBalance(1, tx)
  \/ \E w \in Workers \ {1}, k \in {"k1", "k3"} : SetCache(w, k, StrB, ShortTtl)
  \/ \E w \in Workers : AsyncKeysSettles(w)
  \/ \E w \in Workers : AsyncDelSettles(w)
  \/ \E w \in Workers : AsyncSetSettles(w)

SpecInvalidate == InitInvalidate /\ [][NextInvalidate]_allVars

\* spreadTtl is called with one argument and one pair of draws
InitSpread ==
  /\ local = [k \in Keys |-> AbsentLocal]
  /\ remote = [k \in Keys |-> AbsentRemote]
  /\ remote0 = remote
  /\ site = [remoteTtl |-> 0, localTtl |-> NotGiven]
  /\ IdleCallers
  /\ batch = NoBatch
  /\ handlerOf = [k \in Keys |-> Null]
  /\ work = [w \in Workers |-> IdleWork]
  /\ spread \in [ttl : SpreadInputs, sign : AllTenths, amount : AllTenths,
                 result : {0}, called : {FALSE}]
  /\ conn = NoConn

NextSpread == CallSpreadTtl

SpecSpread == InitSpread /\ [][NextSpread]_allVars

(***************************************************************************)
(* Properties of the single-key path.                                      *)
(***************************************************************************)
AwaitPc(ns) == IF ns = "get" THEN "awaitGet" ELSE "awaitSet"

JoinPc(ns) == IF ns = "get" THEN "joinGet" ELSE "joinSet"

AfterPc(ns) == IF ns = "get" THEN "afterGet" ELSE "afterSet"

\* the callers whose call for key k has started
CallsFor(k) == {c \in Callers : pc[c] # "idle" /\ key[c] = k}

\* the operation caller c registered under namespace ns has not settled
Executing(c, ns) == pc[c] = AwaitPc(ns) /\ opResult[c][ns] = Pending

\* C1: calls of getOrSetCache for one key that are all in flight together, with the
\* key in neither tier at the start and no failure, invoke the population function
\* exactly once and all return the same value (stated for calls whose TTLs let both
\* tiers be written).
C1_PopulatedExactlyOnce ==
  \A k \in SingleKeys :
    ( /\ CallsFor(k) # {}
      /\ \A c \in CallsFor(k) : remoteTtl[c] > 0 /\ localTtl2[c] > 0
      /\ \A c \in CallsFor(k) : pc[c] = "done" /\ outcome[c] # Rejected
      /\ ~lateCall[k]
      /\ ~remote0[k].present )
    => /\ invocations[k] = 1
       /\ \A c, d \in CallsFor(k) : outcome[c] = outcome[d]

\* C2: for every operation key at most one operation started by
\* executeWithPendingPromise is executing; a caller that found the operation pending
\* awaits the registered handle while that operation is outstanding, and every
\* caller resumes with the result of the operation it awaited.
C2_SingleFlight ==
  \A ns \in Namespaces, k \in SingleKeys :
    /\ Cardinality({c \in CallsFor(k) : Executing(c, ns)}) <= 1
    /\ \A c \in CallsFor(k) :
         /\ (pc[c] = JoinPc(ns) /\ Executing(awaiting[c][ns], ns))
              => pendingPromises[OpKey(ns, k)] = awaiting[c][ns]
         /\ pc[c] = AfterPc(ns) => got[c] = opResult[awaiting[c][ns]][ns]

\* a second caller awaits, as a joiner, the operation another caller is executing
C2_Witness ==
  \E c, d \in Callers :
    /\ c # d
    /\ Executing(c, "set")
    /\ pc[d] = "joinSet" /\ awaiting[d]["set"] = c

\* the registrant of the operation under key o is still inside executeWithPendingPromise
Outstanding(ns, k) == \E c \in CallsFor(k) : pc[c] = AwaitPc(ns)

\* C7: the pending table holds an entry for an operation key only while the
\* operation is outstanding (its registrant has not resumed from the await), after a
\* success and after a failure alike; and a call of executeWithPendingPromise made
\* while no operation is outstanding invokes its operation afresh.
C7_EntryOnlyWhileOutstanding ==
  /\ [](\A ns \in Namespaces, k \in SingleKeys :
          LET h == pendingPromises[OpKey(ns, k)]
          IN  /\ h # NoHandle => (pc[h] = AwaitPc(ns) /\ key[h] = k)
              /\ ~Outstanding(ns, k) => h = NoHandle)
  /\ [][\A c \in Callers :
          ( /\ pc[c] = "afterGet"
            /\ pc'[c] \in {"awaitSet", "joinSet"}
            /\ ~Outstanding("set", key[c]) )
          => /\ pc'[c] = "awaitSet"
             /\ invocations'[key[c]] = invocations[key[c]] + 1]_vars

\* a population failed, its registrant has resumed, and a later call populates afresh
C7_Witness ==
  \E c, d \in Callers :
    /\ c # d
    /\ opResult[c]["set"] = Rejected /\ pc[c] = "done" /\ awaiting[c]["set"] = c
    /\ pc[d] = "awaitSet" /\ key[d] = key[c]
    /\ pendingPromises[OpKey("set", key[c])] = d

\* C8: when the population function fails, every caller that awaited it raises the
\* failure and has written neither tier.
C8_PopulationFailurePropagates ==
  \A c \in Callers :
    ( /\ pc[c] = "done"
      /\ awaiting[c]["set"] # NoHandle
      /\ opResult[awaiting[c]["set"]]["set"] = Rejected )
    => /\ outcome[c] = Rejected
       /\ localWrites[c] = {}
       /\ remoteWrites[c] = {}

\* the registrant and a joiner of one failed population have both returned
C8_Witness ==
  \E c, d \in Callers :
    /\ c # d
    /\ pc[c] = "done" /\ pc[d] = "done"
    /\ awaiting[c]["set"] = c /\ awaiting[d]["set"] = c
    /\ opResult[c]["set"] = Rejected

\* C9: a call given a localTtl that is zero or negative never writes the local
\* tier, and a call given a remoteTtl that is zero or negative never writes the
\* remote tier.
C9_NonPositiveTtlSkipsWrite ==
  \A c \in Callers :
    pc[c] # "idle" =>
      /\ (localTtlArg[c].given /\ localTtlArg[c].v <= 0) => localWrites[c] = {}
      /\ remoteTtl[c] <= 0 => remoteWrites[c] = {}

\* the text the store answered to the GET that caller c awaited
GetAnswer(c) == opResult[awaiting[c]["get"]]["get"]

\* caller c missed the local tier and the store answered a text that parses to a
\* value other than null
TookRemoteHit(c) ==
  /\ pc[c] = "done"
  /\ awaiting[c]["get"] # NoHandle
  /\ GetAnswer(c) \notin {Pending, Rejected, RedisNil}
  /\ JsonParse(GetAnswer(c)) \notin {ParseError, Null}

\* C10: a call with remote TTL T and no local TTL that misses the local tier and
\* hits the remote tier writes the local tier once, with the remote value and TTL
\* exactly T/2, and returns that value.
C10_BackfillHalvesTtl ==
  \A c \in Callers :
    (TookRemoteHit(c) /\ ~localTtlArg[c].given)
    => /\ localWrites[c] = {[key |-> key[c], value |-> JsonParse(GetAnswer(c)),
                             ttl2 |-> remoteTtl[c]]}
       /\ outcome[c] = JsonParse(GetAnswer(c))

\* a remote hit with the odd remote TTL 3 backfilled the local tier for 1.5 seconds
C10_Witness ==
  \E c \in Callers :
    /\ TookRemoteHit(c) /\ ~localTtlArg[c].given
    /\ remoteTtl[c] = 3
    /\ local[key[c]] = [present |-> TRUE, value |-> StrA, ttl2 |-> 3]

(***************************************************************************)
(* Properties of the batch path.                                           *)
(***************************************************************************)
RECURSIVE SumOver(_, _)
SumOver(f, S) ==
  IF S = {} THEN 0
  ELSE LET x == CHOOSE y \in S : TRUE IN f[x] + SumOver(f, S \ {x})

\* the handler calls running that batchProcess call b started
RunningOf(b) == Cardinality(batch[b].inflight) + batch[b].zombies

TotalRunning == SumOver([b \in Batches |-> RunningOf(b)], Batches)

\* C3, as stated: at every instant the handler calls in flight, summed over all the
\* batchProcess calls running in the process, do not exceed the pool limit.
C3_GlobalPoolLimit == TotalRunning <= PoolLimit

\* C3, amended: the handler calls in flight that one asyncPool invocation (one attempt
\* at one chunk of one batchProcess call) has started never exceed the pool limit.
C3_PoolLimitPerPoolRun ==
  \A b \in Batches : Cardinality(batch[b].inflight) <= PoolLimit

\* one pool is full with an item still waiting, while more handler calls than the limit
\* are running in the process
C3_Witness ==
  \E b \in Batches :
    /\ batch[b].pc = "pool"
    /\ Cardinality(batch[b].inflight) = PoolLimit
    /\ batch[b].started < Len(batch[b].values)
    /\ TotalRunning > PoolLimit

\* C4: a batchProcess call that returns gives a list as long as its payload, holding at
\* position i the value the cache answered for item i when it answered one, and the
\* handler's value for item i when it was a miss, in whatever order the handler calls
\* resolved.
C4_OrderedResult ==
  \A b \in Batches :
    batch[b].outcome = "returned" =>
      /\ Len(batch[b].returned) = Len(batch[b].payload)
      /\ Len(batch[b].hits) = Len(batch[b].payload)
      /\ \A i \in 1..Len(batch[b].payload) :
           batch[b].returned[i] = IF batch[b].hits[i] # Null THEN batch[b].hits[i]
                                  ELSE HandlerValue(batch[b].payload[i])

\* [a, b, c] with b a hit and a, c misses, c's handler call resolving before a's
C4_Witness ==
  \E b \in Batches :
    /\ batch[b].outcome = "returned"
    /\ Len(batch[b].payload) = 3
    /\ batch[b].overtaken
    /\ batch[b].hits[1] = Null /\ batch[b].hits[2] # Null /\ batch[b].hits[3] = Null
    /\ batch[b].returned[1] # batch[b].returned[3]

\* what the ttl of a write must be for a value, given the nominal ttl of the call
TtlByOwnValue(value, nominal, t) ==
  LET n == IF Truthy(value) THEN nominal ELSE Min(nominal, ProcessTtl)
  IN  IF n >= SpreadThreshold
      THEN /\ 100 * t >= 100 * n - SpreadPercent * n
           /\ 100 * t <= 100 * n + SpreadPercent * n
      ELSE t = n

\* C5: every missed item of a chunk is written to the local tier and to the remote tier
\* with a ttl decided by its own value: min(ttl, getProcessTtl()) when the value is
\* falsy, the spread nominal ttl otherwise, however many misses the chunk has.
C5_TtlByOwnValue ==
  \A b \in Batches :
    batch[b].pc = "multi" =>
      \A j \in 1..Len(batch[b].values) :
        /\ TtlByOwnValue(batch[b].values[j], batch[b].ttl, batch[b].localSets[j].ttl)
        /\ TtlByOwnValue(batch[b].values[j], batch[b].ttl, batch[b].sets[j].ex)

\* C6: a call raises only after exactly 3 attempts at the chunk it is at, and then
\* returns no list; while a chunk is being attempted, retries counts the failed attempts
\* at that chunk alone; no chunk is attempted more than 3 times.
C6_ThreeAttemptsPerChunk ==
  \A b \in Batches :
    /\ batch[b].outcome = "raised" =>
         /\ batch[b].attempts[batch[b].chunkNo] = MaxAttempts
         /\ batch[b].returned = NotReturned
    /\ batch[b].pc \in {"mget", "pool", "multi"} =>
         batch[b].retries = batch[b].attempts[batch[b].chunkNo] - 1
    /\ \A c \in 1..Len(batch[b].attempts) : batch[b].attempts[c] <= MaxAttempts

\* the first chunk failed once and then succeeded, the second failed three times: the
\* call raised although it held the first chunk's results
C6_Witness ==
  \E b \in Batches :
    /\ batch[b].outcome = "raised"
    /\ batch[b].chunkNo = 2
    /\ batch[b].attempts = <<2, MaxAttempts>>
    /\ Len(batch[b].result) = BatchChunkSize
    /\ batch[b].returned = NotReturned

(***************************************************************************)
(* The order in which getOrSetCache consults the tiers.                    *)
(***************************************************************************)
\* the read of the local tier by caller c answered a value
LocalAnswered(c) == pc[c] # "idle" /\ cachedValue[c] # Undefined

\* the read of the remote tier by caller c answered a value
RemoteAnswered(c) == cached[c] \notin {Undefined, Null, Rejected, ParseError}

\* caller c invoked the population function or awaited a pending invocation
WentToPopulate(c) == awaiting[c]["set"] # NoHandle

\* C11: a call whose local read answers a value returns it without reading the remote
\* tier, populating or writing; a call whose local read answers nothing and whose
\* remote read answers a value returns that value without populating or writing the
\* remote tier; a call populates only after its local read and its remote read both
\* answered no value.
C11_TiersInOrder ==
  \A c \in Callers :
    /\ LocalAnswered(c) =>
         /\ awaiting[c]["get"] = NoHandle /\ ~WentToPopulate(c)
         /\ localWrites[c] = {} /\ remoteWrites[c] = {}
         /\ pc[c] = "done" => outcome[c] = cachedValue[c]
    /\ (pc[c] # "idle" /\ ~LocalAnswered(c) /\ RemoteAnswered(c)) =>
         /\ ~WentToPopulate(c)
         /\ remoteWrites[c] = {}
         /\ pc[c] = "done" /\ outcome[c] = cached[c]
    /\ WentToPopulate(c) =>
         /\ cachedValue[c] = Undefined
         /\ awaiting[c]["get"] # NoHandle
         /\ cached[c] = Null
    /\ invocations[key[c]] <= Cardinality({d \in Callers : awaiting[d]["set"] = d})

\* one call missed locally, hit the remote tier and returned; a later call hit the
\* local tier; a third case, a call that populated, is the other caller of C1
C11_Witness ==
  \E c, d \in Callers :
    /\ c # d
    /\ pc[c] = "done" /\ ~LocalAnswered(c) /\ RemoteAnswered(c)
    /\ pc[d] = "done" /\ LocalAnswered(d) /\ outcome[d] = outcome[c]
    /\ invocations[key[c]] = 0

(***************************************************************************)
(* Properties of deleteInCache and of the invalidation handlers.           *)
(***************************************************************************)
SeqToSet(seq) == {seq[i] : i \in 1..Len(seq)}

\* worker w has returned from a deleteInCache call on an exact key
ExactDeleteReturned(w) ==
  /\ work[w].op = "deleteInCache"
  /\ ~IncludesStar(work[w].key)
  /\ work[w].outcome = "returned"

\* C12: deleteInCache on an exact key returns the keys it actually removed, at most
\* one; called again right after on the same key it returns the empty list.
C12_ExactDeleteReportsRemoved ==
  \A w \in Workers :
    ExactDeleteReturned(w) =>
      /\ Len(work[w].returned) <= 1
      /\ SeqToSet(work[w].returned) = work[w].removed
      /\ ( /\ work[w].prev.op = "deleteInCache"
           /\ work[w].prev.key = work[w].key
           /\ work[w].prev.outcome = "returned"
           /\ ~work[w].disturbed ) => work[w].returned = << >>

\* worker w has returned from a deleteInCache call on a key with a wildcard
PatternDeleteReturned(w) ==
  /\ work[w].op = "deleteInCache"
  /\ IncludesStar(work[w].key)
  /\ work[w].outcome = "returned"

\* C13: deleteInCache on a key with a wildcard returns exactly the list KEYS enumerated,
\* having issued a delete in each tier for each of its keys in that order; when no
\* other call wrote a tier since it began, neither tier holds a returned key.
C13_PatternDelete ==
  \A w \in Workers :
    PatternDeleteReturned(w) =>
      /\ work[w].returned = work[w].allKeys
      /\ work[w].dels = work[w].allKeys
      /\ SeqToSet(work[w].allKeys) \subseteq PatternKeys(work[w].key)
      /\ ~work[w].disturbed =>
           \A k \in SeqToSet(work[w].returned) : ~local[k].present /\ ~remote[k].present

\* `tokens:*` enumerated two keys, both held by both tiers before, and returned them
C13_Witness ==
  \E w \in Workers :
    /\ PatternDeleteReturned(w)
    /\ Len(work[w].returned) = 2
    /\ work[w].removed = {"k1", "k2"}
    /\ ~work[w].disturbed
    /\ remote0["k1"].present /\ remote0["k2"].present

\* the rule of each handler, as address and function name
Unmatched(method, tx) ==
  CASE method = "tryInvalidateTokenProperties" ->
         tx.receiver # EsdtContractAddress \/ tx.func # "controlChanges"
    [] method = "tryInvalidateTokensOnAccount" -> tx.sender # EsdtContractAddress
    [] method = "tryInvalidateTokenBalance" -> tx.func # "ESDTTransfer"
    [] OTHER -> FALSE

\* C14: a handler given a transaction that does not match its rule is over at once,
\* has issued no delete in either tier and returns the empty list.
C14_UnmatchedIsNoOp ==
  \A w \in Workers :
    Unmatched(work[w].op, work[w].tx) =>
      /\ work[w].pc = "done"
      /\ work[w].outcome = "returned" /\ work[w].returned = << >>
      /\ work[w].dels = << >> /\ work[w].removed = {}

\* tryInvalidateTokensOnAccount was given a transaction not sent by the contract, after
\* a tryInvalidateTokenBalance call; both tiers still hold the key of its receiver
C14_Witness ==
  \E w \in Workers :
    /\ work[w].op = "tryInvalidateTokensOnAccount"
    /\ Unmatched(work[w].op, work[w].tx)
    /\ work[w].prev.op = "tryInvalidateTokenBalance"
    /\ work[w].prev.returned = << >>
    /\ work[w].tx.receiver = AddressB
    /\ remote["k2"].present /\ local["k2"].present

(***************************************************************************)
(* Further properties of the reads, of the batch path and of spreadTtl.    *)
(***************************************************************************)
\* the store answered the GET that caller c awaited with a text JSON.parse rejects
GotCorruptAnswer(c) ==
  /\ pc[c] \notin {"idle", "afterLocal", "awaitGet", "joinGet", "afterGet"}
  /\ awaiting[c]["get"] # NoHandle
  /\ GetAnswer(c) \notin {Pending, Rejected, RedisNil}
  /\ JsonParse(GetAnswer(c)) = ParseError

\* C15: a remote read whose stored text cannot be deserialized counts as absent: the
\* call does not raise on it and goes on as after a miss.
C15_CorruptReadsAsAbsent ==
  \A c \in Callers :
    GotCorruptAnswer(c) =>
      /\ cached[c] \in {Undefined, Null}
      /\ WentToPopulate(c)

\* C16: a batchProcess call over n items without skipCache in which no attempt failed
\* has issued ceil(n/100) asyncMGet calls of at most 100 keys each, n keys in all, and
\* returns n values, each the cached or the handler's value of its item.
C16_OneMGetPerChunk ==
  \A b \in Batches :
    LET r == batch[b]
        n == Len(r.payload)
    IN  ( /\ r.outcome = "returned"
          /\ ~r.skipCache
          /\ \A c \in 1..Len(r.attempts) : r.attempts[c] = 1 ) =>
        /\ 100 * r.mgets >= n /\ 100 * (r.mgets - 1) < n
        /\ Len(r.mgetSizes) = r.mgets
        /\ \A c \in 1..Len(r.mgetSizes) : r.mgetSizes[c] <= 100
        /\ SumOver(r.mgetSizes, 1..Len(r.mgetSizes)) = n
        /\ Len(r.returned) = n
        /\ \A i \in 1..n :
             r.returned[i] = IF r.hits[i] # Null THEN r.hits[i] ELSE HandlerValue(r.payload[i])

\* 201 items went through in three chunks and three asyncMGet calls
C16_Witness ==
  \E b \in Batches :
    /\ batch[b].outcome = "returned"
    /\ ~batch[b].skipCache
    /\ batch[b].attempts = <<1, 1, 1>>
    /\ batch[b].mgetSizes = <<100, 100, 1>>
    /\ Len(batch[b].returned) = 201

\* C17: for ttl >= 300 the result of spreadTtl lies in [ttl - ttl/10, ttl + ttl/10]
\* whatever the draws; for ttl < 300 it is ttl.
C17_SpreadWithinTenPercent ==
  spread.called =>
    IF spread.ttl >= 300
    THEN /\ 10 * spread.result >= 10 * spread.ttl - spread.ttl
         /\ 10 * spread.result <= 10 * spread.ttl + spread.ttl
    ELSE spread.result = spread.ttl

\* ttl = 1000 came out as 910, and a ttl below the threshold is among the inputs
C17_Witness ==
  /\ spread.called
  /\ spread.ttl = 1000
  /\ spread.result = 910
  /\ 299 \in SpreadInputs

\* no batchProcess call is under way and none raised
BatchesAtRest == \A b \in Batches : batch[b].pc = "idle" \/ batch[b].outcome = "returned"

\* C18: when both tiers hold a key, the ttl of the local entry is at most the ttl of
\* the remote entry (stated for states in which every batchProcess call has returned).
C18_LocalTtlAtMostRemote ==
  BatchesAtRest =>
    \A k \in Keys :
      (local[k].present /\ remote[k].present) => local[k].ttl2 <= 2 * remote[k].ttl

\* C19: batchProcess sends an MGET only for keys that the local tier does not hold.
C19_LocalTierFirst ==
  \A b \in Batches :
    batch[b].pc = "mget" =>
      LET keys == ChunkKeys(batch[b])
      IN  \A i \in 1..Len(keys) : ~local[keys[i]].present

\* C20: without skipCache an item of the chunk goes to the handler if and only if the
\* store held no entry for its key at the chunk's MGET.
C20_PopulatedIffNotHeld ==
  \A b \in Batches :
    (batch[b].pc = "pool" /\ ~batch[b].skipCache) =>
      \A i \in 1..Len(batch[b].held) :
        (i \in SeqToSet(batch[b].missing)) <=> ~batch[b].held[i]

(***************************************************************************)
(* Properties of the write-back, of termination, and of deletions and      *)
(* remote reads running beside other calls.                                *)
(***************************************************************************)

\* C21: in the write-back of a chunk, the j-th setCacheLocal call and the j-th SET
\* command carry the cache key of the j-th missing item of the chunk and the value
\* the handler produced for that item; there is one of each per missing item.
C21_WriteBackUnderOwnKey ==
  \A b \in Batches :
    batch[b].pc = "multi" =>
      LET r == batch[b]
          chunk == CurrentChunk(r)
          missing == Missing(r)
      IN  /\ Len(r.sets) = Len(missing)
          /\ Len(r.localSets) = Len(missing)
          /\ \A j \in 1..Len(missing) :
                LET item == chunk[missing[j]]
                IN  /\ r.localSets[j].key = CacheKeyFunction(item)
                    /\ r.localSets[j].value = HandlerValue(item)
                    /\ r.sets[j].key = CacheKeyFunction(item)
                    /\ r.sets[j].json = JsonStringify(HandlerValue(item))

\* a write-back of more than 25 values for a chunk in which the cache answered some
\* items, the 26th value differing from the first
C21_Witness ==
  \E b \in Batches :
    /\ batch[b].pc = "multi"
    /\ Len(batch[b].sets) > SetChunkSize
    /\ Len(batch[b].sets) < Len(batch[b].cached)
    /\ batch[b].sets[SetChunkSize + 1].json # batch[b].sets[1].json

\* the calls of batchProcessChunk a call has made so far
ChunkAttempts(b) == SumOver([c \in DOMAIN batch[b].attempts |-> batch[b].attempts[c]],
                            DOMAIN batch[b].attempts)

\* C22: when every awaited call settles, every batchProcess call returns or raises,
\* having called batchProcessChunk at most 3 times per chunk of its payload.
C22_BatchProcessTerminates ==
  \A b \in Batches :
    <>(/\ batch[b].outcome \in {"returned", "raised"}
       /\ ChunkAttempts(b) <= MaxAttempts * NumChunks(Len(batch[b].payload), BatchChunkSize))

\* a call over several chunks that is over, having retried a chunk
C22_Witness ==
  /\ batch[1].pc = "done"
  /\ Len(batch[1].attempts) > 1
  /\ ChunkAttempts(1) > Len(batch[1].attempts)

\* every getOrSetCache call and every worker's call is over
AllCallsFinished ==
  /\ \A c \in Callers : pc[c] \in {"idle", "done"}
  /\ \A w \in Workers : work[w].pc \in {"idle", "done"}

\* C23: once a deleteInCache call for a key has returned and every call has finished,
\* no getOrSetCache call for the key having started after the deletion returned,
\* neither tier holds the key.
C23_DeletionNotUndone ==
  \A k \in SingleKeys :
    (AllCallsFinished /\ DeleteReturned(k)) =>
      (~local[k].present /\ ~remote[k].present)

\* a getCacheRemote call of caller c is over and returned a value
ReadReturned(c) ==
  /\ pc[c] = "done"
  /\ conn.kind[c] = "getCacheRemote"
  /\ outcome[c] # Rejected

\* C24: a getCacheRemote call that started after a setCacheRemote call had returned
\* yields the value of that call or of a later setCacheRemote call, whether it sent
\* its own GET or joined a pending one.
C24_ReadAfterWrite ==
  \A c \in Callers :
    (ReadReturned(c) /\ conn.floor[c] > 0) =>
      \E n \in conn.floor[c]..conn.issued : outcome[c] = WriteValues[n]

\* such a call that joined the pending promise of another caller
C24_Witness ==
  \E c \in Callers :
    /\ ReadReturned(c)
    /\ conn.floor[c] > 0
    /\ awaiting[c]["get"] # c
    /\ outcome[c] = WriteValues[conn.floor[c]]

\* the handlers
Handlers ==
  {"tryInvalidateTokenProperties", "tryInvalidateTokensOnAccount", "tryInvalidateTokenBalance"}

\* C25: a handler that has returned returned the keys of the deleteInCache calls it
\* made, in the order of the calls (each of them is made with an exact key and
\* returns that key): an empty list only if it made none.
C25_HandlerReturnsDeleted ==
  \A w \in Workers :
    (work[w].op \in Handlers /\ work[w].outcome = "returned") =>
      work[w].returned = work[w].dels

====
